---- MODULE Spec2Model ----
(***************************************************************************)
(* Ant Colony Optimization for Continuous Domains (class ACOr of           *)
(* ant_colony_for_continuous_domains.py) as a state machine.               *)
(*                                                                         *)
(* Reals are sampled by small integers.  A solution (one row of the numpy  *)
(* matrix) is a record [x |-> <<v1..vn>>, cost |-> c]; a matrix is a       *)
(* sequence of rows.  Python's None is the empty sequence for SA, the row   *)
(* without variables (NoneRow) for best_solution, 0 for num_variables and  *)
(* the string "None" for the cost function.  Python indices are 0-based,   *)
(* sequence indices 1-based.                                               *)
(***************************************************************************)
EXTENDS Integers, Sequences, FiniteSets, Bags, TLC

VARIABLES
    num_iter, pop_size, k, q, xi,       \* algorithm parameters (ACOr.__init__)
    SA,                                 \* Solution Archive
    best_solution,                      \* best solution of the archive
    bestIsView,                         \* best_solution is a numpy view of row 0 of SA's buffer
    num_variables, initial_ranges, is_bounded, cost_function,   \* fields of Base
    pc,                                 \* position of the program
    err,                                \* the error message printed before exit(-1)
    pop, p, iteration,                  \* locals of optimize
    calls,                              \* bag of the cost function's calls in this run
    bestHist,                           \* SA[0].cost after initialization and after each iteration
    zeroDen,                            \* line 127 has divided by k - 1 = 0 in this run
    sel_pc, sel_p, sel_r, sel_i         \* one call of _biased_selection: its position, the
                                        \* probabilities, the draw r and the index returned

vars == <<num_iter, pop_size, k, q, xi, SA, best_solution, bestIsView,
          num_variables, initial_ranges, is_bounded, cost_function,
          pc, err, pop, p, iteration, calls, bestHist, zeroDen,
          sel_pc, sel_p, sel_r, sel_i>>

config == <<num_iter, pop_size, k, q, xi>>
variables == <<num_variables, initial_ranges, is_bounded>>
locals == <<pop, p, iteration>>
selection == <<sel_pc, sel_p, sel_r, sel_i>>

-----------------------------------------------------------------------------
(* Bounds of the model and the values the environment supplies *)

MaxK == 2
MaxIter == 2
MaxLen == 3
MaxWeight == 2

\* outcomes of the cost function
CostVals == 0..1
\* outcomes of a normal draw with a positive standard deviation
DrawVals == 0..3
\* the arguments the caller passes: num_iter, pop_size, k, q and xi (in percent),
\* the (lower, upper) pairs and the boundedness flags
IterArgs == -1..MaxIter
PopArgs == {1, 2}
KArgs == 1..MaxK
QArgs == {10}
XiArgs == {85}
RangeLists == {<< >>, << <<1, 2>> >>, << <<1, 2>>, <<1, 2>> >>}
FlagLists == {<< >>, <<TRUE>>}
UnboundedFlagLists == {<<FALSE>>}
\* the value the caller writes into the array optimize returned
WriteVals == {0}

\* float('nan'): any integer no draw produces
NaN == 99

-----------------------------------------------------------------------------
(* numpy helpers *)

Zeros(n) == [x |-> [j \in 1..n |-> 0], cost |-> 0]

ZerosMatrix(r, n) == [i \in 1..r |-> Zeros(n)]

Uniform(lo, hi) == IF lo <= hi THEN lo..hi ELSE hi..lo

Lt(a, b) == a # NaN /\ b # NaN /\ a < b

AbsDiff(a, b) == IF a = NaN \/ b = NaN THEN NaN ELSE IF a >= b THEN a - b ELSE b - a

Plus(a, b) == IF a = NaN \/ b = NaN THEN NaN ELSE a + b

RECURSIVE SeqSum(_)
SeqSum(s) == IF s = << >> THEN 0 ELSE Head(s) + SeqSum(Tail(s))

IsSorted(rows) == \A i \in 1..(Len(rows) - 1) : rows[i].cost <= rows[i + 1].cost

\* rows without its first row equal to row
RECURSIVE Without(_, _)
Without(rows, row) ==
    IF Head(rows) = row THEN Tail(rows) ELSE <<Head(rows)>> \o Without(Tail(rows), row)

\* rows[rows[:, -1].argsort()]: the sort is not stable, rows of equal cost come
\* in any order
RECURSIVE SortedByCost(_)
SortedByCost(rows) ==
    IF rows = << >> THEN { << >> }
    ELSE LET least == { rows[i] : i \in { i \in 1..Len(rows) :
                                           \A j \in 1..Len(rows) :
                                              rows[i].cost <= rows[j].cost } }
         IN  UNION { { <<row>> \o rest : rest \in SortedByCost(Without(rows, row)) } :
                     row \in least }

-----------------------------------------------------------------------------
(* Construction *)

NoneRow == [x |-> << >>, cost |-> 0]

ACOrInit ==
    /\ num_iter = 0
    /\ pop_size = 5
    /\ k = 50
    /\ q = 10
    /\ xi = 85
    /\ SA = << >>
    /\ best_solution = NoneRow
    /\ bestIsView = FALSE

\* the fields of Base that define_variables, set_cost and optimize use
BaseInit ==
    /\ num_variables = 0
    /\ initial_ranges = << >>
    /\ is_bounded = << >>
    /\ cost_function = "None"

Object ==
    /\ ACOrInit
    /\ BaseInit
    /\ pc = "idle"
    /\ err = "none"
    /\ pop = << >>
    /\ p = << >>
    /\ iteration = 0
    /\ calls = EmptyBag
    /\ bestHist = << >>
    /\ zeroDen = FALSE

Init ==
    /\ Object
    /\ sel_pc = "none"
    /\ sel_p = << >>
    /\ sel_r = 0
    /\ sel_i = -1

\* print(message); exit(-1)
Exit(message) ==
    /\ pc' = "exited"
    /\ err' = message
    /\ UNCHANGED <<config, SA, best_solution, bestIsView, variables, cost_function,
                   locals, calls, bestHist, zeroDen, selection>>

-----------------------------------------------------------------------------
(* set_parameters, define_variables, set_cost *)

NumIterRejected(n) == n <= 0

SetParameters(n, ps, kk, qq, x) ==
    /\ pc = "idle"
    /\ IF NumIterRejected(n)
       THEN Exit("Number of iterations must be greater than zero")
       ELSE /\ num_iter' = n
            /\ pop_size' = ps
            /\ k' = kk
            /\ q' = qq
            /\ xi' = x
            /\ UNCHANGED <<SA, best_solution, bestIsView, variables, cost_function,
                           pc, err, locals, calls, bestHist, zeroDen, selection>>

ParametersNotSet == num_iter = 0

ListsEmpty(ranges, flags) == Len(ranges) = 0 \/ Len(flags) = 0

\* define_variables without the test of line 67
ListsMismatchNoCheck(ranges, flags) == FALSE

ListsMismatch(ranges, flags) == Len(ranges) # Len(flags)

DefineVariables(ranges, flags) ==
    /\ pc = "idle"
    /\ IF ParametersNotSet
       THEN Exit("Error, please set algorithm parameters before variables definition")
       ELSE IF ListsEmpty(ranges, flags)
       THEN Exit("Error, initial_ranges and is_bounded lists must not be empty")
       ELSE IF ListsMismatch(ranges, flags)
       THEN Exit("Error, the number of variables for initial_ranges and is_bounded must be equal")
       ELSE /\ num_variables' = Len(ranges)
            /\ initial_ranges' = ranges
            /\ is_bounded' = flags
            /\ SA' = ZerosMatrix(k, Len(ranges))
            \* SA is a new array: best_solution still views the old one
            /\ bestIsView' = FALSE
            /\ UNCHANGED <<config, best_solution, cost_function, pc, err, locals,
                           calls, bestHist, zeroDen, selection>>

SetCost ==
    /\ pc = "idle"
    /\ cost_function' = "f"
    /\ UNCHANGED <<config, SA, best_solution, bestIsView, variables, pc, err, locals,
                   calls, bestHist, zeroDen, selection>>

-----------------------------------------------------------------------------
(* optimize: error checking and allocation of pop and w, lines 88-99 *)

Optimize ==
    /\ pc = "idle"
    /\ IF num_variables = 0
       THEN Exit("Error, number of variables and their boundaries must be defined prior to optimization")
       ELSE IF cost_function = "None"
       THEN Exit("Error, cost function must be defined prior to optimization")
       ELSE /\ pop' = ZerosMatrix(pop_size, num_variables)
            /\ p' = [i \in 1..k |-> 0]
            /\ pc' = "init"
            /\ calls' = EmptyBag
            /\ bestHist' = << >>
            /\ zeroDen' = FALSE
            /\ UNCHANGED <<config, SA, best_solution, bestIsView, variables,
                           cost_function, err, iteration, selection>>

-----------------------------------------------------------------------------
(* optimize: archive initialization, lines 101-109 *)

\* the iteration index handed to the cost function at line 104 and at line 144
InitCostArg == -1

LoopCostArg(it) == -1

\* a candidate evaluated a second time
EvaluateTwice(log, phase, it, arg) ==
    log (+) SetToBag({[phase |-> phase, it |-> it, arg |-> arg]})
        (+) SetToBag({[phase |-> phase, it |-> it, arg |-> arg]})

\* one call of self.cost_function, logged with the phase and the iteration it is made in
Evaluate(log, phase, it, arg) ==
    log (+) SetToBag({[phase |-> phase, it |-> it, arg |-> arg]})

RECURSIVE EvaluateAll(_, _, _, _, _)
EvaluateAll(log, phase, it, arg, n) ==
    IF n = 0 THEN log
    ELSE EvaluateAll(Evaluate(log, phase, it, arg), phase, it, arg, n - 1)

\* the rows lines 103-104 can write: every variable uniform in its range, any cost
InitRows ==
    { [x |-> xs, cost |-> c] :
        xs \in { v \in [1..num_variables -> DrawVals] :
                   \A j \in 1..num_variables :
                      v[j] \in Uniform(initial_ranges[j][1], initial_ranges[j][2]) },
        c \in CostVals }

\* norm.pdf(linspace(1, k, k), 1, q*k) in floating point: positive at rank 1,
\* non-increasing in the rank, and 0 where the tail underflows.  p = w/sum(w)
\* is kept in units of 1/sum(w).
Weights(kk, qq) ==
    { w \in [1..kk -> 0..1] :
        /\ w[1] > 0
        /\ \A i \in 1..(kk - 1) : w[i] >= w[i + 1] }

InitArchive ==
    /\ pc = "init"
    /\ LET m == IF k <= Len(SA) THEN k ELSE Len(SA) IN
       \E rows \in [1..m -> InitRows] :
          LET written == [i \in 1..Len(SA) |-> IF i <= m THEN rows[i] ELSE SA[i]]
              log == EvaluateAll(calls, "init", -1, InitCostArg, m)
              \* the writes of line 103-104 are in place: a view of row 0 sees them
              seen == IF bestIsView THEN written[1] ELSE best_solution
          IN  \/ /\ k > Len(SA)                 \* IndexError at SA[Len(SA), 0]
                 /\ pc' = "crashed"
                 /\ SA' = written
                 /\ calls' = log
                 /\ best_solution' = seen
                 /\ UNCHANGED <<bestIsView, p, iteration, bestHist>>
              \/ /\ k <= Len(SA)
                 /\ \E s \in SortedByCost(written) :
                       /\ SA' = s
                       /\ bestHist' = <<s[1].cost>>
                 /\ \E w \in Weights(k, q) : p' = w
                 /\ pc' = "loop"
                 /\ iteration' = 0
                 /\ calls' = log
                 /\ best_solution' = seen
                 \* line 105 binds SA to a copy
                 /\ bestIsView' = FALSE
    /\ UNCHANGED <<config, variables, cost_function, err, pop, zeroDen, selection>>

-----------------------------------------------------------------------------
(* optimize: the main loop, lines 114-148 *)

\* the for loop of _biased_selection from rank i on; -1 is the None of falling through
RECURSIVE BiasedWalk(_, _, _)
BiasedWalk(probabilities, r, i) ==
    IF i > Len(probabilities) THEN -1
    ELSE LET r2 == r - probabilities[i]
         IN  IF r2 <= 0 THEN i - 1 ELSE BiasedWalk(probabilities, r2, i + 1)

\* the walk with r < 0 for r <= 0
RECURSIVE BiasedWalkStrict(_, _, _)
BiasedWalkStrict(probabilities, r, i) ==
    IF i > Len(probabilities) THEN -1
    ELSE LET r2 == r - probabilities[i]
         IN  IF r2 < 0 THEN i - 1 ELSE BiasedWalkStrict(probabilities, r2, i + 1)

BiasedSelectionStrict(probabilities, r) == BiasedWalkStrict(probabilities, r, 1)

\* _biased_selection with the draw r = np.random.uniform(0, sum(probabilities))
BiasedSelection(probabilities, r) == BiasedWalk(probabilities, r, 1)

\* sigma_sum of lines 124-126, over the first kk rows
RECURSIVE SigmaSum(_, _, _, _)
SigmaSum(sa, l, var, kk) ==
    IF kk = 0 THEN 0
    ELSE Plus(SigmaSum(sa, l, var, kk - 1), AbsDiff(sa[kk].x[var], sa[l + 1].x[var]))

\* sigma = xi * (sigma_sum / (k - 1)) as the fraction <<numerator, denominator>>, xi in percent
Sigma(sigma_sum, kk, x) ==
    <<IF sigma_sum = NaN THEN NaN ELSE x * sigma_sum, 100 * (kk - 1)>>

\* the values np.random.normal(mean, sigma) can return.  With k = 1 the only term
\* of sigma_sum is |SA[0] - SA[0]|: the quotient is 0/0 = nan, never x/0 = inf.
Normal(mean, sigma) ==
    IF mean = NaN \/ sigma[1] = NaN \/ sigma[2] = 0 THEN {NaN}
    ELSE IF sigma[1] = 0 THEN {mean}
    ELSE DrawVals

\* the hard border strategy of lines 132-137
Clamp(v, lo, hi, bounded) ==
    IF bounded
    THEN IF Lt(v, lo) THEN lo
         ELSE IF Lt(hi, v) THEN hi
         ELSE v
    ELSE v

\* the ranks _biased_selection can return for the current p
Guides == { BiasedSelection(p, r) : r \in 0..SeqSum(p) }

SigmaOf(l, var) == Sigma(SigmaSum(SA, l, var, k), k, xi)

\* np.random.normal is given a nan standard deviation for some variable of guide l
NanScale(l) ==
    \E var \in 1..num_variables : SigmaOf(l, var)[1] = NaN \/ SigmaOf(l, var)[2] = 0

\* the rows one ant guided by rank l can produce, lines 123-144
Candidates(l) ==
    { [x |-> [var \in 1..num_variables |->
                Clamp(drawn[var], initial_ranges[var][1], initial_ranges[var][2],
                      is_bounded[var])],
       cost |-> c] :
        drawn \in { d \in [1..num_variables -> DrawVals \cup {NaN}] :
                      \A var \in 1..num_variables :
                         d[var] \in Normal(SA[l + 1].x[var], SigmaOf(l, var)) },
        c \in CostVals }

AntRows == UNION { Candidates(l) : l \in Guides \ {-1} }

\* SA[-k:, :], the worst solutions kept
TruncateWorst(rows, kk) == SubSeq(rows, Len(rows) - kk + 1, Len(rows))

\* SA[0:k, :]
Truncate(rows, kk) == SubSeq(rows, 1, IF kk <= Len(rows) THEN kk ELSE Len(rows))

\* one pass of the for loop of line 114
Iteration ==
    /\ pc = "loop"
    /\ iteration < num_iter
    /\ \/ \* ant number a raises: SA[None, var] is a matrix and cannot be stored in
          \* pop[ant, var]; a numpy that tests signbit(scale) alone raises
          \* "scale < 0" on the -nan of 0.0/0
          \E a \in 1..pop_size, l \in Guides :
             /\ l = -1 \/ NanScale(l)
             /\ \E rows \in [1..(a - 1) -> AntRows] :
                   pop' = [i \in 1..pop_size |-> IF i < a THEN rows[i] ELSE pop[i]]
             /\ calls' = EvaluateAll(calls, "loop", iteration, LoopCostArg(iteration), a - 1)
             /\ zeroDen' = (zeroDen \/ (l # -1 /\ k - 1 = 0))
             /\ pc' = "crashed"
             /\ UNCHANGED <<SA, iteration, bestHist>>
       \/ \E rows \in [1..pop_size -> AntRows] :
             /\ pop' = rows
             /\ calls' = EvaluateAll(calls, "loop", iteration, LoopCostArg(iteration),
                                     pop_size)
             /\ zeroDen' = (zeroDen \/ (pop_size > 0 /\ k - 1 = 0))
             \* lines 146-148: append, sort, remove the worst solutions
             /\ \E s \in SortedByCost(SA \o rows) :
                   /\ SA' = Truncate(s, k)
                   /\ bestHist' = Append(bestHist, Truncate(s, k)[1].cost)
             /\ iteration' = iteration + 1
             /\ pc' = pc
    /\ UNCHANGED <<config, best_solution, bestIsView, variables, cost_function,
                   err, p, selection>>

\* lines 150-151: SA[0, :] is a view of the archive's buffer, not a copy
Return ==
    /\ pc = "loop"
    /\ iteration >= num_iter
    /\ best_solution' = SA[1]
    /\ bestIsView' = TRUE
    /\ pc' = "idle"
    /\ pop' = << >>
    /\ p' = << >>
    /\ iteration' = 0
    /\ calls' = EmptyBag
    /\ bestHist' = << >>
    /\ zeroDen' = FALSE
    /\ UNCHANGED <<config, SA, variables, cost_function, err, selection>>

\* the caller assigns to an element of the array optimize returned
CallerWrite ==
    /\ pc = "idle"
    /\ best_solution # NoneRow
    /\ \E j \in 1..Len(best_solution.x), v \in WriteVals :
          /\ best_solution' = [best_solution EXCEPT !.x[j] = v]
          /\ SA' = IF bestIsView THEN [SA EXCEPT ![1] = best_solution'] ELSE SA
    /\ UNCHANGED <<config, bestIsView, variables, cost_function, pc, err, locals,
                   calls, bestHist, zeroDen, selection>>

-----------------------------------------------------------------------------
(* The optimizer driven by any caller, its variables bounded *)

Next ==
    \/ \E n \in IterArgs, ps \in PopArgs, kk \in KArgs, qq \in QArgs, x \in XiArgs :
          SetParameters(n, ps, kk, qq, x)
    \/ \E ranges \in RangeLists, flags \in FlagLists : DefineVariables(ranges, flags)
    \/ SetCost
    \/ Optimize
    \/ InitArchive
    \/ Iteration
    \/ Return
    \/ CallerWrite

Spec == Init /\ [][Next]_vars

(* The same caller, defining unbounded variables too *)

NextUnbounded ==
    \/ Next
    \/ \E ranges \in RangeLists, flags \in UnboundedFlagLists :
          DefineVariables(ranges, flags)

SpecUnbounded == Init /\ [][NextUnbounded]_vars

-----------------------------------------------------------------------------
(* _biased_selection alone, on every vector of non-negative weights and every draw *)

WeightVectors == UNION { [1..n -> 0..MaxWeight] : n \in 1..MaxLen }

InitSelection ==
    /\ Object
    /\ sel_pc = "call"
    /\ sel_p \in WeightVectors
    /\ sel_r \in 0..SeqSum(sel_p)
    /\ sel_i = -1

Select ==
    /\ sel_pc = "call"
    /\ sel_i' = BiasedSelection(sel_p, sel_r)
    /\ sel_pc' = "returned"
    /\ UNCHANGED <<config, SA, best_solution, bestIsView, variables, cost_function,
                   pc, err, locals, calls, bestHist, zeroDen, sel_p, sel_r>>

SpecSelection == InitSelection /\ [][Select]_vars

-----------------------------------------------------------------------------
(* Properties *)

InLoop == pc = "loop"

\* C1: right after archive initialization and after the truncation of every
\* iteration, SA has exactly k rows and is sorted non-decreasing by cost,
\* whatever calls of set_parameters and define_variables came before optimize.
C1_ArchiveHasKRowsSorted == InLoop => (Len(SA) = k /\ IsSorted(SA))

\* C2: within one run the cost of the rank-0 entry never increases: the best
\* cost after each iteration is at most the best cost before it, the first one
\* being that of the initial archive.
C2_BestCostNonIncreasing ==
    /\ \A i \in 1..(Len(bestHist) - 1) : bestHist[i + 1] <= bestHist[i]
    /\ InLoop => (Len(bestHist) = iteration + 1 /\ bestHist[Len(bestHist)] = SA[1].cost)

C2_Witness ==
    /\ InLoop
    /\ iteration = 2
    /\ bestHist[1] > bestHist[2]
    /\ bestHist[2] = bestHist[3]

InRange(v, range) == v # NaN /\ range[1] <= v /\ v <= range[2]

RowInBounds(row) ==
    \A j \in 1..num_variables : is_bounded[j] => InRange(row.x[j], initial_ranges[j])

\* C3: every value of a bounded variable stored in the archive or in a new
\* candidate lies in the variable's range, a draw below the range being stored as
\* its lower end and a draw above as its upper end; the value of an unbounded
\* variable is stored as drawn.
C3_StoredValuesRespectBounds ==
    /\ InLoop => \A i \in 1..Len(SA) : RowInBounds(SA[i])
    /\ (InLoop /\ iteration > 0) => \A a \in 1..Len(pop) : RowInBounds(pop[a])
    /\ \A j \in 1..num_variables, v \in DrawVals :
          LET lo == initial_ranges[j][1]
              hi == initial_ranges[j][2]
              stored == Clamp(v, lo, hi, is_bounded[j])
          IN  IF is_bounded[j]
              THEN stored = (IF v < lo THEN lo ELSE IF v > hi THEN hi ELSE v)
              ELSE stored = v

Configured ==
    /\ num_iter > 0
    /\ num_variables > 0
    /\ Len(initial_ranges) = num_variables
    /\ Len(is_bounded) = num_variables

C4_NothingUndetected ==
    /\ num_iter >= 0
    /\ num_variables # 0 => Configured
    /\ pc \in {"init", "loop", "crashed"} => (Configured /\ cost_function # "None")
    /\ (SA # << >> \/ calls # EmptyBag \/ best_solution # NoneRow) => Configured
    /\ pc = "exited" <=> err # "none"

C4_ExitAtDetection ==
    (pc' = "exited" /\ pc # "exited") =>
        /\ pc = "idle"
        /\ UNCHANGED <<config, variables, cost_function, SA, best_solution, pop, calls>>

\* C4: every configuration error (num_iter <= 0, define_variables before
\* set_parameters or with empty or unequal lists, optimize before
\* define_variables or without a cost function) ends the program at the call
\* that detects it, with nothing sampled or evaluated by that call, and the
\* main loop is never reached with one of them undetected.
C4_ConfigurationErrorsAreFatal == []C4_NothingUndetected /\ [][C4_ExitAtDetection]_vars

C4_Witness ==
    /\ pc = "exited"
    /\ err = "Error, cost function must be defined prior to optimization"
    /\ num_variables > 0
    /\ SA = ZerosMatrix(k, num_variables)
    /\ calls = EmptyBag

\* C5: with k = 1 the quotient by k - 1 of line 127 is never computed with a
\* zero denominator.
C5_NoZeroDenominator == ~zeroDen

\* C6: the calls of the cost function made during archive initialization pass -1,
\* those made in iteration i of the main loop pass i.
C6_IterationIndexPassed ==
    \A c \in BagToSet(calls) :
       /\ c.phase = "init" => c.arg = -1
       /\ c.phase = "loop" => (c.arg = c.it /\ c.arg # -1)

CallsIn(phase, it) ==
    LET S == { c \in BagToSet(calls) : c.phase = phase /\ c.it = it }
    IN  BagCardinality([c \in S |-> calls[c]])

\* C7: when the last iteration is done the cost function has been called
\* k + pop_size * num_iter times, k times for the initial archive and pop_size
\* times in each iteration.
C7_EvaluationCount ==
    (InLoop /\ iteration = num_iter) =>
        /\ BagCardinality(calls) = k + pop_size * num_iter
        /\ CallsIn("init", -1) = k
        /\ \A i \in 0..(num_iter - 1) : CallsIn("loop", i) = pop_size

C7_Witness ==
    /\ InLoop
    /\ iteration = num_iter
    /\ num_iter = 2
    /\ pop_size = 2
    /\ k = 2
    /\ BagCardinality(calls) = 6

\* what is left of the draw r after the first n weights
Remainder(probabilities, r, n) == r - SeqSum(SubSeq(probabilities, 1, n))

Costs(rows) == { rows[i].cost : i \in 1..Len(rows) }

CostCount(rows, c) == Cardinality({ i \in 1..Len(rows) : rows[i].cost = c })

C9_Step ==
    (InLoop /\ pc' = "loop") =>
        LET merged == SA \o pop' IN
        /\ Len(SA') = k
        \* the costs kept are costs of the merged rows, each as often at most
        /\ \A c \in Costs(SA') : CostCount(SA', c) <= CostCount(merged, c)
        \* and none of the costs dropped is below a cost kept
        /\ \A c \in Costs(merged) :
              CostCount(SA', c) < CostCount(merged, c) =>
                 \A d \in Costs(SA') : d <= c
        /\ \A i \in 1..Len(SA) :
              (\A a \in 1..Len(pop') : SA[i].cost < pop'[a].cost) =>
                 \E j \in 1..Len(SA') : SA'[j] = SA[i]

\* C9: the append-sort-truncate step of an iteration leaves in the archive the
\* k lowest costs of the previous archive and the new population together; an
\* archive solution cheaper than every newcomer stays in the archive.
C9_KeepsKLowest == [][C9_Step]_vars

C10_Step ==
    \* a write of the caller to the returned solution
    /\ (pc = "idle" /\ pc' = "idle" /\ best_solution' # best_solution) => SA' = SA
    \* the writes of a later optimize to SA
    /\ pc = "init" => best_solution' = best_solution

\* C10: the solution optimize returned shares no storage with SA: writing to it
\* leaves SA unchanged, and a later write to SA leaves it unchanged.
C10_ArchiveNotAliased == [][C10_Step]_vars

====
